---------------------------- MODULE Spec2Model ----------------------------
(***************************************************************************)
(* A model of src/index.js: class Status, a class whose body holds one     *)
(* getter per HTTP status name, each returning an integer literal.         *)
(*                                                                         *)
(* The class body is modelled as the sequence of its getter declarations   *)
(* (name, returned literal, section header it is declared under).  The     *)
(* operations are the ones a JavaScript caller has on the class and its    *)
(* instances: `new Status()`, property read, property assignment,          *)
(* `delete`, enumeration of an instance (for...in / Object.keys /          *)
(* Object.entries) and Object.getOwnPropertyNames(Status.prototype).       *)
(* They follow the ordinary-object algorithms of ECMAScript ([[Get]],      *)
(* [[Set]], [[Delete]], [[OwnPropertyKeys]]) applied to what the class     *)
(* definition creates: non-enumerable accessor properties without setter   *)
(* on Status.prototype, plus Status.prototype.constructor.                 *)
(***************************************************************************)
EXTENDS Integers, Sequences, FiniteSets, TLC

\* Number of `new Status()` evaluations explored.
MaxInstances == 2

\* Number of concurrent readers (tasks or threads reading status names).
MaxReaders == 2

(***************************************************************************)
(* JavaScript values, as records of one shape.                             *)
(***************************************************************************)
Num(n) == [type |-> "number", num |-> n]
Undefined == [type |-> "undefined", num |-> 0]
True == [type |-> "boolean", num |-> 1]
\* the class itself, the value of Status.prototype.constructor
StatusClass == [type |-> "function", num |-> 0]

(***************************************************************************)
(* The class body, in declaration order.                                   *)
(***************************************************************************)
\* Faulty variant: the getter of TOKEN_REQUIRED declared under the name of
\* the getter before it, so that TOKEN_EXPIRED is declared twice.
GRedeclared(n, v, s) ==
  [name |-> IF n = "TOKEN_REQUIRED" THEN "TOKEN_EXPIRED" ELSE n,
   value |-> v, section |-> s]

\* Faulty variant: the first server error getter declared above the
\* "Server Errors" header, at the end of the client error section.
GMisplaced(n, v, s) ==
  [name |-> n, value |-> v,
   section |-> IF n = "INTERNAL_ERROR" THEN "Client Error" ELSE s]

G(n, v, s) == [name |-> n, value |-> v, section |-> s]

Getters ==
  <<
     G("PROCEED",                       100, "Informational"),  \* line 36
     G("SWITCHING",                     101, "Informational"),  \* line 44
     G("PROCESSING",                    102, "Informational"),  \* line 53
     G("OK",                            200, "Success")      ,  \* line 70
     G("CREATED",                       201, "Success")      ,  \* line 77
     G("ACCEPTED",                      202, "Success")      ,  \* line 85
     G("NA_INFO",                       203, "Success")      ,  \* line 92
     G("NO_CONTENT",                    204, "Success")      ,  \* line 100
     G("RESET_CONTENT",                 205, "Success")      ,  \* line 108
     G("PARTIAL_CONTENT",               206, "Success")      ,  \* line 117
     G("MULTI_STATUS",                  207, "Success")      ,  \* line 125
     G("ALREADY_REPORTED",              208, "Success")      ,  \* line 133
     G("IM_USED",                       226, "Success")      ,  \* line 141
     G("MULTIPLE_CHOICES",              300, "Redirection")  ,  \* line 161
     G("MOVED",                         301, "Redirection")  ,  \* line 168
     G("FOUND",                         302, "Redirection")  ,  \* line 179
     G("OTHER",                         303, "Redirection")  ,  \* line 188
     G("NOT_MODIFIED",                  304, "Redirection")  ,  \* line 197
     G("USE_PROXY",                     305, "Redirection")  ,  \* line 206
     G("SWITCH_PROXY",                  306, "Redirection")  ,  \* line 213
     G("TEMP_REDIRECT",                 307, "Redirection")  ,  \* line 223
     G("PERM_REDIRECT",                 308, "Redirection")  ,  \* line 232
     G("BAD_REQUEST",                   400, "Client Error") ,  \* line 250
     G("UNAUTHORIZED",                  401, "Client Error") ,  \* line 259
     G("PAYMENT_REQUIRED",              402, "Client Error") ,  \* line 268
     G("FORBIDDEN",                     403, "Client Error") ,  \* line 276
     G("NOT_FOUND",                     404, "Client Error") ,  \* line 284
     G("NOT_ALLOWED",                   405, "Client Error") ,  \* line 292
     G("NOT_ACCEPTABLE",                406, "Client Error") ,  \* line 300
     G("PROXY_AUTH_REQUIRED",           407, "Client Error") ,  \* line 307
     G("REQUEST_TIMEOUT",               408, "Client Error") ,  \* line 316
     G("CONFLICT",                      409, "Client Error") ,  \* line 324
     G("GONE",                          410, "Client Error") ,  \* line 335
     G("LENGTH_REQUIRED",               411, "Client Error") ,  \* line 342
     G("PRECONDITION_FAILED",           412, "Client Error") ,  \* line 349
     G("ENTITY_TOO_LARGE",              413, "Client Error") ,  \* line 356
     G("URI_TOO_LONG",                  414, "Client Error") ,  \* line 364
     G("UNSUPPORTED_MEDIA_TYPE",        415, "Client Error") ,  \* line 372
     G("RANGE_NOT_SATISFIABLE",         416, "Client Error") ,  \* line 380
     G("EXPECTATION_FAILED",            417, "Client Error") ,  \* line 387
     G("TEAPOT",                        418, "Client Error") ,  \* line 396
     G("AUTH_TIMEOUT",                  419, "Client Error") ,  \* line 405
     G("METHOD_FAILURE",                420, "Client Error") ,  \* line 413
     G("CALM",                          420, "Client Error") ,  \* line 421
     G("MISDIRECTED",                   421, "Client Error") ,  \* line 429
     G("UNPROCESSABLE_REQUEST",         422, "Client Error") ,  \* line 436
     G("LOCKED",                        423, "Client Error") ,  \* line 443
     G("FAILED_DEPENDENCY",             424, "Client Error") ,  \* line 450
     G("UPGRADE_REQUIRED",              426, "Client Error") ,  \* line 457
     G("PRECONDITION_REQUIRED",         428, "Client Error") ,  \* line 466
     G("TOO_MANY_REQUESTS",             429, "Client Error") ,  \* line 473
     G("HEADER_FIELDS_TOO_LARGE",       431, "Client Error") ,  \* line 481
     G("LOGIN_TIMEOUT",                 440, "Client Error") ,  \* line 488
     G("NO_RESPONSE",                   444, "Client Error") ,  \* line 496
     G("RETRY_WITH",                    449, "Client Error") ,  \* line 503
     G("PARENTAL_CONTROLS",             450, "Client Error") ,  \* line 511
     G("UNAVAILABLE_FOR_LEGAL_REASONS", 451, "Client Error") ,  \* line 520
     G("REDIRECT",                      451, "Client Error") ,  \* line 530
     G("HEADER_TOO_LARGE",              494, "Client Error") ,  \* line 537
     G("CERT_ERROR",                    495, "Client Error") ,  \* line 545
     G("NO_CERT",                       496, "Client Error") ,  \* line 553
     G("HTTP_TO_HTTPS",                 497, "Client Error") ,  \* line 561
     G("TOKEN_EXPIRED",                 498, "Client Error") ,  \* line 568
     G("CLIENT_CLOSED",                 499, "Client Error") ,  \* line 576
     G("TOKEN_REQUIRED",                499, "Client Error") ,  \* line 583
     G("INTERNAL_ERROR",                500, "Server Errors"),  \* line 604
     G("NOT_IMPLEMENTED",               501, "Server Errors"),  \* line 612
     G("BAD_GATEWAY",                   502, "Server Errors"),  \* line 619
     G("SERVICE_UNAVAILABLE",           503, "Server Errors"),  \* line 627
     G("GATEWAY_TIMEOUT",               504, "Server Errors"),  \* line 634
     G("HTTP_VERSION_NOT_SUPPORTED",    505, "Server Errors"),  \* line 641
     G("VARIANT_ALSO_NEGOTIATES",       506, "Server Errors"),  \* line 648
     G("INSUFFICIENT_STORAGE",          507, "Server Errors"),  \* line 655
     G("LOOP_DETECTED",                 508, "Server Errors"),  \* line 662
     G("BANDWIDTH_LIMIT_EXCEEDED",      509, "Server Errors"),  \* line 669
     G("NOT_EXTENDED",                  510, "Server Errors"),  \* line 676
     G("NETWORK_AUTH_REQUIRED",         511, "Server Errors"),  \* line 685
     G("UNKNOWN_ERROR",                 520, "Server Errors"),  \* line 694
     G("NETWORK_READ_TIMEOUT",          598, "Server Errors"),  \* line 702
     G("NETWORK_CONNECT_TIMEOUT",       599, "Server Errors")   \* line 710
  >>

\* the status names of the class
Names == {Getters[i].name : i \in DOMAIN Getters}

\* ClassDefinitionEvaluation defines the elements of the body in order on
\* Status.prototype; a later element of the same name redefines the earlier
\* one, so the getter in force for a name is its last declaration.
Prototype ==
  [n \in Names |->
     Getters[CHOOSE i \in DOMAIN Getters :
               /\ Getters[i].name = n
               /\ \A j \in DOMAIN Getters : Getters[j].name = n => j <= i]]

\* the declarations of `name` in the class body
Declarations(name) == {i \in DOMAIN Getters : Getters[i].name = name}

\* The section headers of the class body, each with the leading digit of the
\* status codes it announces (1xx ... 5xx).
SectionDigit ==
  { <<"Informational", 1>>, <<"Success", 2>>, <<"Redirection", 3>>,
    <<"Client Error", 4>>, <<"Server Errors", 5>> }

\* `name` is declared by a getter of the class body
Declared(name) == name \in Names

\* Faulty variants of GetterReturn: a literal mistyped in one getter.
GetterReturnTeapot481(name) ==
  IF name = "TEAPOT" THEN 481 ELSE Prototype[name].value
GetterReturnTokenExpired499(name) ==
  IF name = "TOKEN_EXPIRED" THEN 499 ELSE Prototype[name].value
GetterReturnCalm429(name) ==
  IF name = "CALM" THEN 429 ELSE Prototype[name].value
GetterReturnUnknownError52(name) ==
  IF name = "UNKNOWN_ERROR" THEN 52 ELSE Prototype[name].value
GetterReturnNotFound504(name) ==
  IF name = "NOT_FOUND" THEN 504 ELSE Prototype[name].value
GetterReturnTimeout600(name) ==
  IF name = "NETWORK_CONNECT_TIMEOUT" THEN 600 ELSE Prototype[name].value

\* the literal the getter of `name` returns
GetterReturn(name) == Prototype[name].value

\* the integer literals returned by the getters
Values == {GetterReturn(n) : n \in Names}

\* Own property names of Status.prototype: the class definition creates
\* `constructor` and one accessor per getter.
PrototypeOwnNames == {"constructor"} \cup Names

\* Faulty variant: the status names defined as enumerable properties.
ProtoEnumerableGetters(name) == name \in Names

\* Class elements are defined non-enumerable; so is `constructor`.
ProtoEnumerable(name) == FALSE

\* A `get` element without a matching `set` element has no setter.
HasSetter(name) == FALSE

(***************************************************************************)
(* Inputs: property names a caller uses that the class does not declare,   *)
(* and the values a caller assigns.                                        *)
(***************************************************************************)
OtherNames == {"NOT_A_REAL_STATUS", "constructor"}
AllNames == Names \cup OtherNames
AssignValues == {Num(999)}
DeleteNames == OtherNames \cup {"OK"}
\* the names concurrent readers read and concurrent writers try to assign
ReadNames == {"OK", "CALM", "NOT_A_REAL_STATUS"}

(***************************************************************************)
(* State.                                                                  *)
(*   instances  the Status objects created so far                          *)
(*   own        own[i]: the own properties of instance i, a set of         *)
(*              <<name, value>> pairs (an instance is an ordinary,         *)
(*              extensible object; the class has no constructor and no     *)
(*              fields, so a new instance has none)                        *)
(*   result     the completion of the last operation: the operation, the   *)
(*              property name read (Get), how it completed, the value it   *)
(*              produced, where the property was found, whether an         *)
(*              assignment wrote and, for an enumeration, the              *)
(*              <<name, value>> pairs produced                             *)
(*   readers    readers[r]: the position of concurrent reader r: idle,     *)
(*              reading name on instance inst, or done with the value it   *)
(*              observed                                                   *)
(***************************************************************************)
VARIABLES instances, own, result, readers
vars == <<instances, own, result, readers>>

Ids == 1..MaxInstances
ReaderIds == 1..MaxReaders
Reader(pc, i, name, v) == [pc |-> pc, inst |-> i, name |-> name, value |-> v]
Idle == Reader("idle", 0, "", Undefined)

HasOwn(o, name) == \E p \in o : p[1] = name
OwnValue(o, name) == (CHOOSE p \in o : p[1] = name)[2]

\* Faulty variant: a default number for a name that is found nowhere.
ProtoGetDefault(name) ==
  IF Declared(name) THEN Num(GetterReturn(name))
  ELSE IF name = "constructor" THEN StatusClass
  ELSE Num(0)

\* Status.prototype[name], then Object.prototype[name]
ProtoGet(name) ==
  IF Declared(name) THEN Num(GetterReturn(name))
  ELSE IF name = "constructor" THEN StatusClass
  ELSE Undefined

\* [[Get]]: the own property if there is one, else the prototype chain.
\* A property that is found nowhere reads as undefined; nothing is thrown.
Lookup(o, name) == IF HasOwn(o, name) THEN OwnValue(o, name) ELSE ProtoGet(name)

\* Faulty variant: the status names as plain writable properties.
SetOutcomeWritable(o, name) == "write"

\* [[Set]] on an instance: "write" creates or updates an own data property,
\* "reject" is an accessor without setter found on Status.prototype.
SetOutcome(o, name) ==
  IF HasOwn(o, name) THEN "write"
  ELSE IF Declared(name) /\ ~HasSetter(name) THEN "reject"
  ELSE "write"

\* the own properties of o after  o[name] = v
Assigned(o, name, v) ==
  IF SetOutcome(o, name) = "write"
  THEN {p \in o : p[1] # name} \cup {<<name, v>>}
  ELSE o

\* the own properties of o after  delete o[name]
Deleted(o, name) == {p \in o : p[1] # name}

\* for (k in o) / Object.keys(o) / Object.entries(o): the enumerable
\* properties, own ones and (for...in) inherited ones, with their values
Enumerate(o) ==
  o \cup {<<n, ProtoGet(n)>> : n \in {m \in PrototypeOwnNames : ProtoEnumerable(m) /\ ~HasOwn(o, m)}}

\* Object.getOwnPropertyNames(Status.prototype), each read on the prototype
Reflect == {<<n, ProtoGet(n)>> : n \in PrototypeOwnNames}

\* where [[Get]] finds the property
Where(o, name) ==
  IF HasOwn(o, name) THEN "own"
  ELSE IF name \in PrototypeOwnNames THEN "prototype"
  ELSE "none"

Completion(op, name, c, v, w, e) ==
  [op |-> op, name |-> name, completion |-> c, value |-> v, where |-> w,
   wrote |-> FALSE, entries |-> e]

Init ==
  /\ instances = {}
  /\ own = [i \in Ids |-> {}]
  /\ result = Completion("none", "", "normal", Undefined, "none", {})
  /\ readers = [r \in ReaderIds |-> Idle]

\* new Status()
New ==
  /\ Cardinality(instances) < MaxInstances
  /\ LET i == Cardinality(instances) + 1 IN
       /\ instances' = instances \cup {i}
       /\ result' = Completion("New", "", "normal", Undefined, "none", {})
  /\ UNCHANGED <<own, readers>>

\* Faulty variant: a getter that caches what it returns on the instance.
GetCaching(i, name) ==
  /\ i \in instances
  /\ result' = Completion("Get", name, "normal", Lookup(own[i], name), Where(own[i], name), {})
  /\ own' = [own EXCEPT ![i] = {p \in own[i] : p[1] # name} \cup {<<name, Lookup(own[i], name)>>}]
  /\ UNCHANGED <<instances, readers>>

\* s[name]
Get(i, name) ==
  /\ i \in instances
  /\ result' = Completion("Get", name, "normal", Lookup(own[i], name), Where(own[i], name), {})
  /\ UNCHANGED <<instances, own, readers>>

\* s[name] = v, in strict or sloppy code
Set(i, name, v, strict) ==
  /\ i \in instances
  /\ own' = [own EXCEPT ![i] = Assigned(own[i], name, v)]
  /\ result' = [Completion("Set", "",
                             IF SetOutcome(own[i], name) = "reject" /\ strict
                               THEN "TypeError" ELSE "normal",
                             v, Where(own[i], name), {})
                  EXCEPT !.wrote = (SetOutcome(own[i], name) = "write")]
  /\ UNCHANGED <<instances, readers>>

\* delete s[name]
Delete(i, name) ==
  /\ i \in instances
  /\ own' = [own EXCEPT ![i] = Deleted(own[i], name)]
  /\ result' = Completion("Delete", "", "normal", True, Where(own[i], name), {})
  /\ UNCHANGED <<instances, readers>>

\* Object.entries(s) / for (k in s)
Keys(i) ==
  /\ i \in instances
  /\ result' = Completion("Keys", "", "normal", Undefined, "none", Enumerate(own[i]))
  /\ UNCHANGED <<instances, own, readers>>

\* Object.getOwnPropertyNames(Status.prototype)
OwnPropertyNames ==
  /\ result' = Completion("OwnPropertyNames", "", "normal", Undefined, "none", Reflect)
  /\ UNCHANGED <<instances, own, readers>>

Next ==
  \/ New
  \/ \E i \in Ids, name \in AllNames : Get(i, name)
  \/ \E i \in Ids, name \in AllNames, v \in AssignValues, strict \in BOOLEAN :
       Set(i, name, v, strict)
  \/ \E i \in Ids, name \in DeleteNames : Delete(i, name)
  \/ \E i \in Ids : Keys(i)
  \/ OwnPropertyNames

Spec == Init /\ [][Next]_vars

(***************************************************************************)
(* Concurrent readers.  After initialization (the class is defined and the *)
(* instances exist) each reader repeatedly starts a read of a name on an   *)
(* instance and later completes it with the value [[Get]] yields then;     *)
(* the steps of different readers interleave freely, and so do callers     *)
(* that try to assign.                                                     *)
(***************************************************************************)
InitReaders ==
  /\ instances = Ids
  /\ own = [i \in Ids |-> {}]
  /\ result = Completion("none", "", "normal", Undefined, "none", {})
  /\ readers = [r \in ReaderIds |-> Idle]

\* reader r starts evaluating s[name]
BeginRead(r, i, name) ==
  /\ readers[r].pc # "reading"
  /\ i \in instances
  /\ readers' = [readers EXCEPT ![r] = Reader("reading", i, name, Undefined)]
  /\ UNCHANGED <<instances, own, result>>

\* reader r completes its read
FinishRead(r) ==
  /\ readers[r].pc = "reading"
  /\ readers' = [readers EXCEPT ![r] =
                   Reader("done", 0, readers[r].name,
                          Lookup(own[readers[r].inst], readers[r].name))]
  /\ UNCHANGED <<instances, own, result>>

NextReaders ==
  \/ \E r \in ReaderIds, i \in Ids, name \in ReadNames : BeginRead(r, i, name)
  \/ \E r \in ReaderIds : FinishRead(r)
  \/ \E i \in Ids, name \in ReadNames, v \in AssignValues, strict \in BOOLEAN :
       Set(i, name, v, strict)

SpecReaders == InitReaders /\ [][NextReaders]_vars

TypeOK ==
  /\ instances \subseteq Ids
  /\ \A i \in Ids : \A p \in own[i] : p[1] \in AllNames /\ p[2] \in AssignValues
  /\ \A i \in Ids : i \notin instances => own[i] = {}

(***************************************************************************)
(* The name/value table of the specification, section 4.1.                 *)
(***************************************************************************)
Table41 ==
  {
     <<"PROCEED", 100>>, <<"SWITCHING", 101>>, <<"PROCESSING", 102>>,
     <<"OK", 200>>, <<"CREATED", 201>>, <<"ACCEPTED", 202>>,
     <<"NA_INFO", 203>>, <<"NO_CONTENT", 204>>, <<"RESET_CONTENT", 205>>,
     <<"PARTIAL_CONTENT", 206>>, <<"MULTI_STATUS", 207>>, <<"ALREADY_REPORTED", 208>>,
     <<"IM_USED", 226>>, <<"MULTIPLE_CHOICES", 300>>, <<"MOVED", 301>>,
     <<"FOUND", 302>>, <<"OTHER", 303>>, <<"NOT_MODIFIED", 304>>,
     <<"USE_PROXY", 305>>, <<"SWITCH_PROXY", 306>>, <<"TEMP_REDIRECT", 307>>,
     <<"PERM_REDIRECT", 308>>, <<"BAD_REQUEST", 400>>, <<"UNAUTHORIZED", 401>>,
     <<"PAYMENT_REQUIRED", 402>>, <<"FORBIDDEN", 403>>, <<"NOT_FOUND", 404>>,
     <<"NOT_ALLOWED", 405>>, <<"NOT_ACCEPTABLE", 406>>, <<"PROXY_AUTH_REQUIRED", 407>>,
     <<"REQUEST_TIMEOUT", 408>>, <<"CONFLICT", 409>>, <<"GONE", 410>>,
     <<"LENGTH_REQUIRED", 411>>, <<"PRECONDITION_FAILED", 412>>, <<"ENTITY_TOO_LARGE", 413>>,
     <<"URI_TOO_LONG", 414>>, <<"UNSUPPORTED_MEDIA_TYPE", 415>>, <<"RANGE_NOT_SATISFIABLE", 416>>,
     <<"EXPECTATION_FAILED", 417>>, <<"TEAPOT", 418>>, <<"AUTH_TIMEOUT", 419>>,
     <<"METHOD_FAILURE", 420>>, <<"CALM", 420>>, <<"MISDIRECTED", 421>>,
     <<"UNPROCESSABLE_REQUEST", 422>>, <<"LOCKED", 423>>, <<"FAILED_DEPENDENCY", 424>>,
     <<"UPGRADE_REQUIRED", 426>>, <<"PRECONDITION_REQUIRED", 428>>, <<"TOO_MANY_REQUESTS", 429>>,
     <<"HEADER_FIELDS_TOO_LARGE", 431>>, <<"LOGIN_TIMEOUT", 440>>, <<"NO_RESPONSE", 444>>,
     <<"RETRY_WITH", 449>>, <<"PARENTAL_CONTROLS", 450>>, <<"UNAVAILABLE_FOR_LEGAL_REASONS", 451>>,
     <<"REDIRECT", 451>>, <<"HEADER_TOO_LARGE", 494>>, <<"CERT_ERROR", 495>>,
     <<"NO_CERT", 496>>, <<"HTTP_TO_HTTPS", 497>>, <<"TOKEN_EXPIRED", 498>>,
     <<"CLIENT_CLOSED", 499>>, <<"TOKEN_REQUIRED", 499>>, <<"INTERNAL_ERROR", 500>>,
     <<"NOT_IMPLEMENTED", 501>>, <<"BAD_GATEWAY", 502>>, <<"SERVICE_UNAVAILABLE", 503>>,
     <<"GATEWAY_TIMEOUT", 504>>, <<"HTTP_VERSION_NOT_SUPPORTED", 505>>, <<"VARIANT_ALSO_NEGOTIATES", 506>>,
     <<"INSUFFICIENT_STORAGE", 507>>, <<"LOOP_DETECTED", 508>>, <<"BANDWIDTH_LIMIT_EXCEEDED", 509>>,
     <<"NOT_EXTENDED", 510>>, <<"NETWORK_AUTH_REQUIRED", 511>>, <<"UNKNOWN_ERROR", 520>>,
     <<"NETWORK_READ_TIMEOUT", 598>>, <<"NETWORK_CONNECT_TIMEOUT", 599>>
  }

Table41Names == {p[1] : p \in Table41}

\* the last operation was a read of a status name
GotStatus == result.op = "Get" /\ result.name \in Names

\* C1: the getters of class Status define exactly the table of section 4.1:
\* the class declares the names of the table and no other, and reading a
\* listed name on any Status instance yields the listed value.
C1_TableExact ==
  /\ Names = Table41Names
  /\ \A p \in Table41 : \A i \in instances : Lookup(own[i], p[1]) = Num(p[2])
  /\ result.op = "Get" =>
        \A p \in Table41 : p[1] = result.name => result.value = Num(p[2])

C1_Witness ==
  /\ result.op = "Get"
  /\ result.name = "NETWORK_CONNECT_TIMEOUT"
  /\ result.value = Num(599)

\* C2 as stated: a read of a name that is not a status name fails (it does
\* not complete normally with a value).
C2_UnknownNameFails ==
  (result.op = "Get" /\ result.name \notin Names) => result.completion # "normal"

\* C2 amended: a read of a name that is not a status name does not fail; it
\* completes normally, with undefined when the name is found neither on the
\* instance nor on its prototype chain, and with the inherited or assigned
\* property otherwise (never with a number returned by a getter).
C2_UnknownNameUndefined ==
  (result.op = "Get" /\ result.name \notin Names) =>
     /\ result.completion = "normal"
     /\ result.where = "none" => result.value = Undefined
     /\ result.where = "prototype" => result.value = StatusClass
     /\ result.where = "own" => result.value \in AssignValues

C2_Witness ==
  /\ result.op = "Get"
  /\ result.name = "NOT_A_REAL_STATUS"
  /\ result.where = "none"
  /\ result.completion = "normal"
  /\ result.value = Undefined

\* the status names whose getter returns v
NamesOf(v) == {n \in Names : GetterReturn(n) = v}

\* the values returned by more than one getter, each with its names
Shared == {<<v, NamesOf(v)>> : v \in {w \in Values : Cardinality(NamesOf(w)) > 1}}

\* the numbers in the pairs an enumeration produced
EntryNumbers(e) == {p[2].num : p \in {q \in e : q[2].type = "number"}}

\* C3 as stated: 62 distinct names map to 58 distinct values, the difference
\* being 4 synonym collisions (counted on the names and values that
\* reflecting on Status.prototype produces).
C3_Count62Names58Values ==
  result.op = "OwnPropertyNames" =>
    /\ Cardinality({p \in result.entries : p[2].type = "number"}) = 62
    /\ Cardinality(EntryNumbers(result.entries)) = 58
    /\ Cardinality(Names) - Cardinality(Values) = 4

\* C3 amended: the class declares 80 distinct names, which map to 77 distinct
\* values, the difference being the 3 synonym collisions (420, 451, 499);
\* reflecting on Status.prototype shows the same counts.
C3_Count80Names77Values ==
  /\ Cardinality(Names) = 80
  /\ Cardinality(Values) = 77
  /\ Cardinality(Shared) = 3
  /\ result.op = "OwnPropertyNames" =>
        /\ Cardinality({p \in result.entries : p[2].type = "number"}) = 80
        /\ Cardinality(EntryNumbers(result.entries)) = 77

C3_Witness ==
  /\ result.op = "OwnPropertyNames"
  /\ Cardinality(EntryNumbers(result.entries)) = 77

\* C4: no operation on the class or an instance (read, assignment to a status
\* name in sloppy or strict code, delete, enumeration) changes what a status
\* name returns: in every reachable state every status name, read on any
\* instance, returns the literal of its getter, and no instance has an own
\* property of that name.
C4_Immutable ==
  \A i \in Ids : \A n \in Names :
     /\ ~HasOwn(own[i], n)
     /\ Lookup(own[i], n) = Num(Prototype[n].value)

\* an assignment to a status name was attempted in strict code and rejected
C4_Witness ==
  /\ result.op = "Set"
  /\ result.where = "prototype"
  /\ ~result.wrote
  /\ result.completion = "TypeError"

\* C5: METHOD_FAILURE and CALM both return 420, UNAVAILABLE_FOR_LEGAL_REASONS
\* and REDIRECT both return 451, CLIENT_CLOSED and TOKEN_REQUIRED both return
\* 499, on every instance.
Synonyms ==
  { <<420, {"METHOD_FAILURE", "CALM"}>>,
    <<451, {"UNAVAILABLE_FOR_LEGAL_REASONS", "REDIRECT"}>>,
    <<499, {"CLIENT_CLOSED", "TOKEN_REQUIRED"}>> }

C5_Synonyms ==
  /\ \A g \in Synonyms : \A n \in g[2] :
        /\ n \in Names
        /\ \A i \in instances : Lookup(own[i], n) = Num(g[1])
  /\ \A g \in Synonyms : (result.op = "Get" /\ result.name \in g[2]) => result.value = Num(g[1])

C5_Witness ==
  /\ result.op = "Get"
  /\ result.name = "CALM"
  /\ result.value = Num(420)

\* C6: two distinct names return the same value only when both belong to one
\* documented synonym group (420, 451, 499); every other value, 498 included
\* (TOKEN_EXPIRED only), is returned by exactly one name.
C6_OnlySynonymsCollide ==
  /\ \A c \in Shared : \E g \in Synonyms : g[1] = c[1] /\ c[2] \subseteq g[2]
  /\ NamesOf(498) = {"TOKEN_EXPIRED"}
  /\ GotStatus =>
        LET same == {n \in Names : \E i \in instances : Lookup(own[i], n) = result.value}
        IN  \/ same = {result.name}
            \/ \E g \in Synonyms :
                  result.value = Num(g[1]) /\ result.name \in g[2] /\ same \subseteq g[2]

C6_Witness ==
  /\ GotStatus
  /\ result.name = "TOKEN_EXPIRED"
  /\ result.value = Num(498)
  /\ {n \in Names : \E i \in instances : Lookup(own[i], n) = result.value} = {"TOKEN_EXPIRED"}

\* C7: every value returned for a status name is an integer v with
\* 100 <= v <= 599 (three digits).
C7_Range ==
  /\ \A i \in instances : \A n \in Names :
        /\ Lookup(own[i], n).type = "number"
        /\ 100 <= Lookup(own[i], n).num /\ Lookup(own[i], n).num <= 599
  /\ GotStatus =>
        /\ result.value.type = "number"
        /\ 100 <= result.value.num /\ result.value.num <= 599

C7_Witness ==
  /\ GotStatus
  /\ result.name = "NETWORK_CONNECT_TIMEOUT"
  /\ result.value.num = 599

\* the (name, value) pairs of the class
Pairs == {<<n, Num(GetterReturn(n))>> : n \in Names}

\* C8 as stated: iterating the registry yields the full set of (name, value)
\* pairs, every status name with its value and nothing else.
C8_IterationYieldsPairs ==
  result.op \in {"Keys", "OwnPropertyNames"} => result.entries = Pairs

\* C8 amended: iterating a Status instance (for...in, Object.keys,
\* Object.entries) yields no status name at all, only the properties assigned
\* to that instance; the pairs are obtained only by reflecting on the own
\* property names of Status.prototype, which yields every status name with
\* its value and, besides them, `constructor`.
C8_OnlyReflectionYieldsPairs ==
  /\ result.op = "Keys" => \A p \in result.entries : p[1] \notin Names
  /\ result.op = "OwnPropertyNames" =>
        result.entries = Pairs \cup {<<"constructor", StatusClass>>}

C8_Witness ==
  /\ result.op = "Keys"
  /\ result.entries = {}
  /\ instances # {}

\* C9: a read is pure.  It leaves the instances and their properties
\* unchanged; the value a read of a status name returns is the value a read
\* of that name returns on every instance; and two successive reads of the
\* same status name (on the same or on different instances) return the same
\* value.
C9_LookupPure ==
  [][ /\ result'.op = "Get" => UNCHANGED <<instances, own>>
      /\ (result'.op = "Get" /\ result'.name \in Names) =>
            \A i \in instances' : Lookup(own'[i], result'.name) = result'.value
      /\ (GotStatus /\ result'.op = "Get" /\ result'.name = result.name) =>
            result'.value = result.value
    ]_vars

\* a status name was read while two instances with different own properties
\* exist
C9_Witness ==
  /\ GotStatus
  /\ Cardinality(instances) = 2
  /\ own[1] # own[2]

(***************************************************************************)
(* The category of a value, as the specification defines it: by the first  *)
(* digit of the value.                                                     *)
(***************************************************************************)
RECURSIVE FirstDigit(_)
FirstDigit(v) == IF v < 10 THEN v ELSE FirstDigit(v \div 10)

CategoryDigit ==
  { <<1, "Informational">>, <<2, "Success">>, <<3, "Redirection">>,
    <<4, "ClientError">>, <<5, "ServerError">> }

\* the categories v falls in
Categories(v) == {c[2] : c \in {d \in CategoryDigit : d[1] = FirstDigit(v)}}

\* C10: the category of a value is determined by its first digit; 404
\* (NOT_FOUND) is a ClientError, 200 (OK) a Success, 101 (SWITCHING)
\* Informational, 503 (SERVICE_UNAVAILABLE) a ServerError, and every value a
\* status name returns falls in exactly one of the five categories.
C10_Category ==
  /\ \A i \in instances : \A n \in Names :
        Cardinality(Categories(Lookup(own[i], n).num)) = 1
  /\ \A i \in instances :
        /\ Categories(Lookup(own[i], "NOT_FOUND").num) = {"ClientError"}
        /\ Categories(Lookup(own[i], "OK").num) = {"Success"}
        /\ Categories(Lookup(own[i], "SWITCHING").num) = {"Informational"}
        /\ Categories(Lookup(own[i], "SERVICE_UNAVAILABLE").num) = {"ServerError"}
  /\ (GotStatus /\ result.value = Num(404)) => Categories(result.value.num) = {"ClientError"}
  /\ (GotStatus /\ result.value = Num(200)) => Categories(result.value.num) = {"Success"}
  /\ (GotStatus /\ result.value = Num(101)) => Categories(result.value.num) = {"Informational"}
  /\ (GotStatus /\ result.value = Num(503)) => Categories(result.value.num) = {"ServerError"}

C10_Witness ==
  /\ GotStatus
  /\ result.name = "NOT_FOUND"
  /\ result.value = Num(404)
  /\ Categories(result.value.num) = {"ClientError"}

\* C11: concurrent readers, in any interleaving with each other and with
\* callers that try to assign: no write to a status name ever occurs (no
\* instance gets an own property of a status name), and every reader that
\* completes a read of a status name observes the value a single sequential
\* reader gets, the literal of its getter.
C11_ConcurrentReaders ==
  /\ \A i \in Ids : \A p \in own[i] : p[1] \notin Names
  /\ \A r \in ReaderIds :
        (readers[r].pc = "done" /\ readers[r].name \in Names) =>
           readers[r].value = Num(GetterReturn(readers[r].name))
  /\ \A r, q \in ReaderIds :
        (/\ readers[r].pc = "done" /\ readers[q].pc = "done"
         /\ readers[r].name = readers[q].name /\ readers[r].name \in Names) =>
           readers[r].value = readers[q].value

\* one reader has completed a read of OK while another is in the middle of
\* one, on an instance whose own properties a caller has changed, right after
\* an assignment to a status name was attempted
C11_Witness ==
  /\ readers[1].pc = "done" /\ readers[1].name = "OK" /\ readers[1].value = Num(200)
  /\ readers[2].pc = "reading" /\ readers[2].name = "OK"
  /\ own[readers[2].inst] # {}
  /\ result.op = "Set" /\ result.where = "prototype" /\ ~result.wrote

\* the status names declared by more than one getter
Redeclared == {n \in Names : Cardinality(Declarations(n)) > 1}

\* C12: every status name is declared by exactly one getter of the class, so
\* no later declaration overrides an earlier one: a read of a status name
\* returns the literal of every declaration of that name, and the prototype
\* has one property per getter (plus constructor).
C12_OneGetterPerName ==
  /\ Redeclared = {}
  /\ Len(Getters) = Cardinality(Names)
  /\ GotStatus =>
        \A i \in Declarations(result.name) : result.value = Num(Getters[i].value)
  /\ result.op = "OwnPropertyNames" =>
        Cardinality(result.entries) = Len(Getters) + 1

C12_Witness ==
  /\ GotStatus
  /\ result.name = "TOKEN_EXPIRED"
  /\ Cardinality(Declarations(result.name)) = 1
  /\ \A i \in Declarations(result.name) : result.value = Num(Getters[i].value)

\* the getters declared under a header that does not announce the leading
\* digit of their value
Misplaced ==
  {i \in DOMAIN Getters : <<Getters[i].section, FirstDigit(Getters[i].value)>> \notin SectionDigit}

\* the getters followed by a getter of a smaller value
OutOfOrder ==
  {i \in DOMAIN Getters : i < Len(Getters) /\ Getters[i].value > Getters[i + 1].value}

\* C13: each getter is declared under the section header matching the leading
\* digit of its value (Informational 1xx, Success 2xx, Redirection 3xx,
\* Client Error 4xx, Server Errors 5xx), and the getters appear in
\* non-decreasing order of value through the class; so the value a read of a
\* status name returns has the leading digit of the section the name is
\* declared in.
C13_SectionsAndOrder ==
  /\ Misplaced = {}
  /\ OutOfOrder = {}
  /\ GotStatus =>
        \A i \in Declarations(result.name) :
           <<Getters[i].section, FirstDigit(result.value.num)>> \in SectionDigit

C13_Witness ==
  /\ GotStatus
  /\ result.name = "INTERNAL_ERROR"
  /\ result.value = Num(500)
  /\ Prototype[result.name].section = "Server Errors"

=============================================================================
